---- MODULE Spec2Model ----
(***************************************************************************)
(* Geolocation endpoint (detectCountry, getClientIP, handler) and the      *)
(* redirection utilities (isValidUrl, loadConfig, getDefaultConfig).       *)
(*                                                                         *)
(* JavaScript strings are sequences of one-character strings, so that      *)
(* toUpperCase, toLowerCase, trim, includes, startsWith and split work on  *)
(* characters as they do in the program.                                   *)
(***************************************************************************)
EXTENDS Integers, Sequences, FiniteSets, TLC

VARIABLES
    headers,     \* detectCountry: the header map passed in (insertion-ordered)
    country,     \* detectCountry: the value returned
    called,      \* detectCountry: the call has returned
    nodeEnv,     \* process.env.NODE_ENV
    req,         \* handler: the request (method, headers, query)
    res,         \* handler: the response object (headers set, responses sent)
    hpc,         \* handler: "request" before the call, "returned" or "threw" after
    failure,     \* handler: where an exception was raised ("none" if nowhere)
    detectRan,   \* handler: detectCountry was invoked for this request
    url,         \* isValidUrl: the argument
    urlResult,   \* isValidUrl: outcome of the call (returned value, threw)
    urlCalled,   \* isValidUrl: the call has returned
    net,         \* loadConfig: what the network will answer to fetch(configPath)
    cpc,         \* loadConfig: position in the async function
    response,    \* loadConfig: the Response the fetch resolved with
    promise      \* loadConfig: the promise returned to the caller

vars == <<headers, country, called, nodeEnv, req, res, hpc, failure, detectRan,
          url, urlResult, urlCalled, net, cpc, response, promise>>

detectVars == <<headers, country, called>>
handlerVars == <<req, res, hpc, failure, detectRan>>
urlVars == <<url, urlResult, urlCalled>>
configVars == <<net, cpc, response, promise>>

----------------------------------------------------------------------------
(* Bounds of the model.                                                    *)

\* number of headers in a header map given to detectCountry
MaxHeaders == 2
\* number of headers in a request given to the handler
MaxReqHeaders == 2

----------------------------------------------------------------------------
(* JavaScript strings and values.                                          *)

LowerLetters == <<"a", "b", "c", "d", "e", "f", "g", "h", "i", "j", "k", "l", "m",
                  "n", "o", "p", "q", "r", "s", "t", "u", "v", "w", "x", "y", "z">>
UpperLetters == <<"A", "B", "C", "D", "E", "F", "G", "H", "I", "J", "K", "L", "M",
                  "N", "O", "P", "Q", "R", "S", "T", "U", "V", "W", "X", "Y", "Z">>
Digits == <<"0", "1", "2", "3", "4", "5", "6", "7", "8", "9">>

\* U+00DF, the one character of the model whose uppercase form is two characters
SharpS == "sz"
\* the white space String.prototype.trim removes (space and tab stand for the class)
WhiteSpace == {" ", "\t"}

Range(s) == {s[i] : i \in 1..Len(s)}

IndexIn(c, s) == IF c \in Range(s) THEN CHOOSE i \in 1..Len(s) : s[i] = c ELSE 0

\* String.prototype.toUpperCase, one character: letters map to their capital,
\* sharp s maps to "SS", everything else is unchanged
UpperOfChar(c) ==
    IF c \in Range(LowerLetters) THEN <<UpperLetters[IndexIn(c, LowerLetters)]>>
    ELSE IF c = SharpS THEN <<"S", "S">>
    ELSE <<c>>

LowerOfChar(c) ==
    IF c \in Range(UpperLetters) THEN <<LowerLetters[IndexIn(c, UpperLetters)]>>
    ELSE <<c>>

RECURSIVE toUpperCase(_)
toUpperCase(s) ==
    IF s = <<>> THEN <<>> ELSE UpperOfChar(Head(s)) \o toUpperCase(Tail(s))

RECURSIVE toLowerCase(_)
toLowerCase(s) ==
    IF s = <<>> THEN <<>> ELSE LowerOfChar(Head(s)) \o toLowerCase(Tail(s))

RECURSIVE trimStart(_)
trimStart(s) ==
    IF s # <<>> /\ Head(s) \in WhiteSpace THEN trimStart(Tail(s)) ELSE s

RECURSIVE trimEnd(_)
trimEnd(s) ==
    IF s # <<>> /\ s[Len(s)] \in WhiteSpace THEN trimEnd(SubSeq(s, 1, Len(s) - 1)) ELSE s

trim(s) == trimEnd(trimStart(s))

startsWith(s, p) == Len(p) <= Len(s) /\ SubSeq(s, 1, Len(p)) = p

includes(s, sub) ==
    \E i \in 1..(Len(s) + 1) :
        i + Len(sub) - 1 <= Len(s) /\ SubSeq(s, i, i + Len(sub) - 1) = sub

\* the values a header, an argument or a property can hold
Str(s) == [t |-> "string", v |-> s]
Arr(a) == [t |-> "array", v |-> a]
Num(n) == [t |-> "number", v |-> n]
Undefined == [t |-> "undefined", v |-> <<>>]

\* ToBoolean: "" is falsy, every array is truthy, 0 is falsy, undefined is falsy
Truthy(x) ==
    CASE x.t = "string" -> x.v # <<>>
      [] x.t = "array" -> TRUE
      [] x.t = "number" -> x.v # 0
      [] OTHER -> FALSE

RECURSIVE join(_)
join(a) ==
    IF a = <<>> THEN <<>>
    ELSE IF Len(a) = 1 THEN a[1]
    ELSE a[1] \o <<",">> \o join(Tail(a))

RECURSIVE decimal(_)
decimal(n) ==
    IF n < 10 THEN <<Digits[n + 1]>> ELSE decimal(n \div 10) \o <<Digits[(n % 10) + 1]>>

\* String(value): a string is itself, an array is its elements joined by ",",
\* a number is its decimal digits
String(x) ==
    CASE x.t = "string" -> x.v
      [] x.t = "array" -> join(x.v)
      [] x.t = "number" -> decimal(x.v)
      [] OTHER -> <<"u", "n", "d", "e", "f", "i", "n", "e", "d">>

\* headers[name]: a header map is an object whose own keys keep insertion order,
\* modelled as a sequence of [name, value] with distinct names
GetHeader(h, name) ==
    IF \E i \in 1..Len(h) : h[i].name = name
    THEN h[CHOOSE i \in 1..Len(h) : h[i].name = name].value
    ELSE Undefined

----------------------------------------------------------------------------
(* Country detection.                                                      *)

XX == <<"X", "X">>

vercelHeaders == <<
    <<"x", "-", "v", "e", "r", "c", "e", "l", "-", "i", "p", "-", "c", "o", "u", "n", "t", "r", "y">>,
    <<"X", "-", "V", "e", "r", "c", "e", "l", "-", "I", "p", "-", "C", "o", "u", "n", "t", "r", "y">>,
    <<"X", "-", "V", "E", "R", "C", "E", "L", "-", "I", "P", "-", "C", "O", "U", "N", "T", "R", "Y">>,
    <<"x", "-", "v", "e", "r", "c", "e", "l", "-", "i", "p", "c", "o", "u", "n", "t", "r", "y">>,
    <<"X", "-", "V", "e", "r", "c", "e", "l", "-", "I", "P", "C", "o", "u", "n", "t", "r", "y">> >>

CfIpCountry == <<"c", "f", "-", "i", "p", "c", "o", "u", "n", "t", "r", "y">>
VercelWord == <<"v", "e", "r", "c", "e", "l">>
CountryWord == <<"c", "o", "u", "n", "t", "r", "y">>

\* faulty variant: the length test alone, the alphabetic test dropped
isValidCountryCode_LengthOnly(code) ==
    code # <<>> /\ Len(code) = 2

isValidCountryCode(code) ==
    /\ code # <<>>
    /\ Len(code) = 2
    /\ \A i \in 1..Len(code) : code[i] \in Range(UpperLetters)

\* String(value).toUpperCase().trim()
normalize(value) == trim(toUpperCase(String(value)))

\* faulty variant: either word is enough
isVercelCountryKey_Either(key) ==
    LET lowerKey == toLowerCase(key)
    IN includes(lowerKey, VercelWord) \/ includes(lowerKey, CountryWord)

\* the key test of the scan over all headers
isVercelCountryKey(key) ==
    LET lowerKey == toLowerCase(key)
    IN includes(lowerKey, VercelWord) /\ includes(lowerKey, CountryWord)

\* the loop over vercelHeaders from index i: the first valid code, or 'XX'
RECURSIVE standardHeaders(_, _)
standardHeaders(h, i) ==
    IF i > Len(vercelHeaders) THEN XX
    ELSE LET value == GetHeader(h, vercelHeaders[i])
         IN IF Truthy(value) /\ isValidCountryCode(normalize(value))
            THEN normalize(value)
            ELSE standardHeaders(h, i + 1)

\* the for-in loop over the keys of headers from position i
RECURSIVE allHeaders(_, _)
allHeaders(h, i) ==
    IF i > Len(h) THEN XX
    ELSE LET value == h[i].value
         IN IF /\ isVercelCountryKey(h[i].name)
               /\ Truthy(value)
               /\ isValidCountryCode(normalize(value))
            THEN normalize(value)
            ELSE allHeaders(h, i + 1)

\* faulty variant: the Cloudflare fallback is missing
cloudflare_Missing(h, c) == c

\* the Cloudflare fallback, entered with the country found so far
cloudflare(h, c) ==
    IF c = XX /\ Truthy(GetHeader(h, CfIpCountry))
    THEN IF isValidCountryCode(normalize(GetHeader(h, CfIpCountry)))
         THEN normalize(GetHeader(h, CfIpCountry))
         ELSE c
    ELSE c

detectCountry(h) ==
    LET c1 == standardHeaders(h, 1)
        c2 == IF c1 = XX THEN allHeaders(h, 1) ELSE c1
    IN cloudflare(h, c2)

----------------------------------------------------------------------------
(* Header maps given to detectCountry: strings and arrays of strings.      *)

DetectNames == {
    vercelHeaders[1], vercelHeaders[5],
    <<"x", "-", "c", "u", "s", "t", "o", "m", "-", "v", "e", "r", "c", "e", "l", "-", "c", "o", "u", "n", "t", "r", "y", "-", "c", "o", "d", "e">>,
    <<"C", "o", "u", "n", "t", "r", "y", "-", "V", "E", "R", "C", "E", "L">>,
    CfIpCountry,
    <<"C", "F", "-", "I", "P", "C", "o", "u", "n", "t", "r", "y">> }

DetectValues == {
    Str(<<"u", "s">>),
    Str(<<" ", "d", "e", "\t">>),
    Str(<<"x", "x">>),
    Str(<<"1", "X">>),
    Str(<<SharpS>>),
    Str(<<>>),
    Arr(<<<<"g", "b">>>>),
    Arr(<<<<"u", "s">>, <<"d", "e">>>>) }

DistinctNames(h) == \A i, j \in 1..Len(h) : i # j => h[i].name # h[j].name

HeaderMapsOver(names, values, n) ==
    {h \in UNION {[1..k -> [name : names, value : values]] : k \in 0..n} : DistinctNames(h)}

IdleHandler ==
    /\ req = [method |-> "GET", headers |-> <<>>, query |-> "object"]
    /\ res = [headers |-> {}, sent |-> <<>>]
    /\ hpc = "unused"
    /\ failure = "none"
    /\ detectRan = FALSE

IdleDetect == headers = <<>> /\ country = XX /\ called = FALSE

IdleUrl == url = Undefined /\ urlResult = [threw |-> FALSE, value |-> FALSE] /\ urlCalled = FALSE

IdleConfig ==
    /\ net = "unused"
    /\ cpc = "unused"
    /\ response = "none"
    /\ promise = "unused"

InitDetect ==
    /\ headers \in HeaderMapsOver(DetectNames, DetectValues, MaxHeaders)
    /\ country = XX
    /\ called = FALSE
    /\ nodeEnv = "production"
    /\ IdleHandler /\ IdleUrl /\ IdleConfig

\* one call of detectCountry(headers); the function assigns nothing to headers
DetectCountry ==
    /\ ~called
    /\ country' = detectCountry(headers)
    /\ called' = TRUE
    /\ UNCHANGED <<headers, nodeEnv, handlerVars, urlVars, configVars>>

NextDetect == DetectCountry

SpecDetect == InitDetect /\ [][NextDetect]_vars

----------------------------------------------------------------------------
(* Claims about detectCountry, stated from the claims' words.              *)

Alpha2Letters == {"A", "B", "C", "D", "E", "F", "G", "H", "I", "J", "K", "L", "M",
                  "N", "O", "P", "Q", "R", "S", "T", "U", "V", "W", "X", "Y", "Z"}

\* ^[A-Z]{2}$
MatchesAlpha2(s) == Len(s) = 2 /\ s[1] \in Alpha2Letters /\ s[2] \in Alpha2Letters

StringOrStrings(h) == \A i \in 1..Len(h) : h[i].value.t \in {"string", "array"}

\* the value of header `name` is valid after normalization
ValidUnder(h, name) == MatchesAlpha2(normalize(GetHeader(h, name)))

NameHasVercelAndCountry(name) ==
    /\ includes(toLowerCase(name), VercelWord)
    /\ includes(toLowerCase(name), CountryWord)

IsExactName(name) == \E k \in 1..Len(vercelHeaders) : vercelHeaders[k] = name

\* C1: for a header map of strings and string lists, detectCountry returns a
\* value, and the value is two characters matching ^[A-Z]{2}$ ("XX" included)
C1_ResultIsAlpha2 ==
    (called /\ StringOrStrings(headers)) => MatchesAlpha2(country)

\* a lowercase, untrimmed value was normalized and returned
C1_Witness ==
    /\ called
    /\ country = <<"D", "E">>
    /\ \E i \in 1..Len(headers) : headers[i].value = Str(<<" ", "d", "e", "\t">>)

\* C2: when one of the five exact names carries a valid value, the result is the
\* normalized value of the first such name in the fixed order, whatever the other
\* headers hold
C2_FirstExactNameWins ==
    called =>
        \A k \in 1..Len(vercelHeaders) :
            (/\ ValidUnder(headers, vercelHeaders[k])
             /\ \A j \in 1..(k - 1) : ~ValidUnder(headers, vercelHeaders[j]))
            => country = normalize(GetHeader(headers, vercelHeaders[k]))

\* what the code does keep of C2: the first valid exact-name value wins unless it
\* is the sentinel itself
C2_FirstExactNameWinsUnlessSentinel ==
    called =>
        \A k \in 1..Len(vercelHeaders) :
            (/\ ValidUnder(headers, vercelHeaders[k])
             /\ normalize(GetHeader(headers, vercelHeaders[k])) # XX
             /\ \A j \in 1..(k - 1) : ~ValidUnder(headers, vercelHeaders[j]))
            => country = normalize(GetHeader(headers, vercelHeaders[k]))

\* C3: when no exact name yields a valid code and some header whose lowercased
\* name contains "vercel" and "country" carries a valid value, the result is the
\* normalized value of the first such header in iteration order
C3_FirstScannedHeaderWins ==
    (/\ called
     /\ \A k \in 1..Len(vercelHeaders) : ~ValidUnder(headers, vercelHeaders[k]))
    => \A i \in 1..Len(headers) :
          (/\ NameHasVercelAndCountry(headers[i].name)
           /\ ValidUnder(headers, headers[i].name)
           /\ \A j \in 1..(i - 1) :
                 ~(/\ NameHasVercelAndCountry(headers[j].name)
                   /\ ValidUnder(headers, headers[j].name)))
          => country = normalize(headers[i].value)

\* C4: with no valid value under any name containing "vercel" and "country", and a
\* valid value under cf-ipcountry, the result is the normalized cf-ipcountry value
C4_CloudflareFallback ==
    (/\ called
     /\ \A i \in 1..Len(headers) :
           NameHasVercelAndCountry(headers[i].name) => ~ValidUnder(headers, headers[i].name)
     /\ ValidUnder(headers, CfIpCountry))
    => country = normalize(GetHeader(headers, CfIpCountry))

\* a Vercel header with a rejected value sits before a lowercase cf-ipcountry value
C4_Witness ==
    /\ called
    /\ Len(headers) = 2
    /\ headers[1].name = vercelHeaders[1]
    /\ headers[1].value = Str(<<"1", "X">>)
    /\ headers[2].name = CfIpCountry
    /\ headers[2].value = Str(<<"u", "s">>)
    /\ country = <<"U", "S">>

\* a header the three stages may read
IsCountrySource(name) ==
    IsExactName(name) \/ NameHasVercelAndCountry(name) \/ name = CfIpCountry

\* C10: a result other than "XX" is the normalized value of a header present in
\* the map under an exact name, a name containing "vercel" and "country", or
\* cf-ipcountry; without such a header the result is "XX"; the map is not modified
C10_NeverFabricates ==
    /\ [](called =>
            /\ country # XX =>
                  \E i \in 1..Len(headers) :
                      /\ IsCountrySource(headers[i].name)
                      /\ country = normalize(headers[i].value)
            /\ (\A i \in 1..Len(headers) : ~IsCountrySource(headers[i].name))
                  => country = XX)
    /\ [][headers' = headers]_vars

\* a header that is no source carries a valid-looking value, the only source
\* header carries a rejected one, and the result is "XX"
C10_Witness ==
    /\ called
    /\ country = XX
    /\ Len(headers) = 2
    /\ ~IsCountrySource(headers[1].name)
    /\ MatchesAlpha2(normalize(headers[1].value))
    /\ IsCountrySource(headers[2].name)

----------------------------------------------------------------------------
(* The request handler.  Logger calls only write to the console and the    *)
(* clock only feeds the timestamp and processingTime fields, so neither    *)
(* is part of the state; a timestamp is recorded as present.               *)

ipHeaders == <<
    <<"x", "-", "f", "o", "r", "w", "a", "r", "d", "e", "d", "-", "f", "o", "r">>,
    <<"x", "-", "r", "e", "a", "l", "-", "i", "p">>,
    <<"c", "f", "-", "c", "o", "n", "n", "e", "c", "t", "i", "n", "g", "-", "i", "p">>,
    <<"x", "-", "c", "l", "i", "e", "n", "t", "-", "i", "p">>,
    <<"x", "-", "f", "o", "r", "w", "a", "r", "d", "e", "d">>,
    <<"f", "o", "r", "w", "a", "r", "d", "e", "d", "-", "f", "o", "r">>,
    <<"f", "o", "r", "w", "a", "r", "d", "e", "d">> >>

XDebug == <<"x", "-", "d", "e", "b", "u", "g">>
TrueWord == <<"t", "r", "u", "e">>
Unknown == <<"u", "n", "k", "n", "o", "w", "n">>

\* value.split(',')[0]
RECURSIVE firstSegment(_)
firstSegment(s) ==
    IF s = <<>> \/ Head(s) = "," THEN <<>> ELSE <<Head(s)>> \o firstSegment(Tail(s))

\* the loop over ipHeaders from index i.  A truthy value that is neither an array
\* nor a string has no split method: the call raises a TypeError
RECURSIVE getClientIPFrom(_, _)
getClientIPFrom(h, i) ==
    IF i > Len(ipHeaders) THEN [threw |-> FALSE, ip |-> Str(Unknown)]
    ELSE LET first == GetHeader(h, ipHeaders[i])
             value == IF Truthy(first) THEN first
                      ELSE GetHeader(h, toLowerCase(ipHeaders[i]))
             ip == IF value.t = "array"
                   THEN (IF value.v = <<>> THEN Undefined ELSE Str(value.v[1]))
                   ELSE Str(trim(firstSegment(value.v)))
         IN IF ~Truthy(value) THEN getClientIPFrom(h, i + 1)
            ELSE IF value.t \notin {"array", "string"}
                 THEN [threw |-> TRUE, ip |-> Undefined]
            ELSE IF Truthy(ip) THEN [threw |-> FALSE, ip |-> ip]
            ELSE getClientIPFrom(h, i + 1)

getClientIP(h) == getClientIPFrom(h, 1)

NoDebug == [present |-> FALSE, headers |-> <<>>, detected |-> <<>>, clientIP |-> Undefined]
NoBody == [error |-> "", country |-> <<>>, message |-> "", timestamp |-> FALSE,
           debug |-> NoDebug]

\* res.setHeader(name, value)
setHeader(r, name, value) ==
    [r EXCEPT !.headers = {p \in @ : p[1] # name} \cup {<<name, value>>}]

\* res.status(code).json(body)
sendJson(r, code, body) ==
    [r EXCEPT !.sent = Append(@, [status |-> code, body |-> body])]

\* faulty variant: only GET passes the gate
methodNotAllowed_GetOnly(r) == r.method # "GET"

\* req.method !== 'GET' && req.method !== 'POST'
methodNotAllowed(r) == r.method # "GET" /\ r.method # "POST"

\* the debug filter over Object.keys(req.headers), from position i
RECURSIVE debugHeaders(_, _)
debugHeaders(h, i) ==
    IF i > Len(h) THEN <<>>
    ELSE LET lowerKey == toLowerCase(h[i].name)
         IN (IF \/ includes(lowerKey, VercelWord)
                \/ includes(lowerKey, CountryWord)
                \/ includes(lowerKey, <<"i", "p">>)
                \/ includes(lowerKey, <<"f", "o", "r", "w", "a", "r", "d", "e", "d">>)
             THEN <<h[i]>> ELSE <<>>) \o debugHeaders(h, i + 1)

\* the five response headers set after detection
withResponseHeaders(r) ==
    setHeader(setHeader(setHeader(setHeader(setHeader(r,
        "Content-Type", "application/json"),
        "Cache-Control", "no-cache, no-store, must-revalidate"),
        "Pragma", "no-cache"),
        "Expires", "0"),
        "X-Content-Type-Options", "nosniff")

\* the try block and its catch, entered with the response object r.  Reading
\* req.query.debug raises a TypeError when req.query is undefined; the read is
\* skipped when NODE_ENV is 'development' (|| short-circuits)
tryBlock(rq, env, r, clientIP) ==
    LET c == detectCountry(rq.headers)
        r1 == withResponseHeaders(r)
        queryThrows == env # "development" /\ rq.query = "undefined"
        isDebugMode == \/ env = "development"
                       \/ rq.query = "debug"
                       \/ GetHeader(rq.headers, XDebug) = Str(TrueWord)
        body == [error |-> "", country |-> c, message |-> "", timestamp |-> TRUE,
                 debug |-> IF isDebugMode
                           THEN [present |-> TRUE,
                                 headers |-> debugHeaders(rq.headers, 1),
                                 detected |-> c,
                                 clientIP |-> clientIP]
                           ELSE NoDebug]
    IN IF queryThrows
       THEN [hpc |-> "returned", failure |-> "query", detectRan |-> TRUE,
             res |-> sendJson(setHeader(r1, "Content-Type", "application/json"), 500,
                        [NoBody EXCEPT !.error = "Internal server error",
                                       !.country = XX,
                                       !.message = IF env = "development"
                                                   THEN "Cannot read properties of undefined"
                                                   ELSE "An error occurred"])]
       ELSE [hpc |-> "returned", failure |-> "none", detectRan |-> TRUE,
             res |-> sendJson(r1, 200, body)]

\* handler(req, res): what one call leaves behind
handler(rq, env, r) ==
    LET got == getClientIP(rq.headers)
    IN IF got.threw
       THEN [hpc |-> "threw", failure |-> "getClientIP", detectRan |-> FALSE, res |-> r]
       ELSE IF methodNotAllowed(rq)
       THEN [hpc |-> "returned", failure |-> "none", detectRan |-> FALSE,
             res |-> sendJson(setHeader(r, "Allow", "GET, POST"), 405,
                        [NoBody EXCEPT !.error = "Method not allowed", !.country = XX])]
       ELSE tryBlock(rq, env, r, got.ip)

ReqNames == {ipHeaders[1], ipHeaders[2], vercelHeaders[1], XDebug}

ReqValues == {
    Str(<<"u", "s">>),
    Str(<<"1", ".", "2", ".", "3", ".", "4", ",", " ", "5", ".", "6", ".", "7", ".", "8">>),
    Str(<<" ", ",", "9", ".", "9">>),
    Str(TrueWord),
    Num(42) }

Methods == {"GET", "POST", "PUT"}
Queries == {"undefined", "empty", "debug"}

Init ==
    /\ req \in [method : Methods,
                headers : HeaderMapsOver(ReqNames, ReqValues, MaxReqHeaders),
                query : Queries]
    /\ nodeEnv \in {"production", "development"}
    /\ res = [headers |-> {}, sent |-> <<>>]
    /\ hpc = "request"
    /\ failure = "none"
    /\ detectRan = FALSE
    /\ IdleDetect /\ IdleUrl /\ IdleConfig

\* the platform calls handler(req, res) once for the request
Handler ==
    /\ hpc = "request"
    /\ LET out == handler(req, nodeEnv, res)
       IN /\ hpc' = out.hpc
          /\ res' = out.res
          /\ failure' = out.failure
          /\ detectRan' = out.detectRan
    /\ UNCHANGED <<req, nodeEnv, detectVars, urlVars, configVars>>

Next == Handler

Spec == Init /\ [][Next]_vars

----------------------------------------------------------------------------
(* Claims about the handler.                                               *)

C7_WitnessPost ==
    /\ hpc = "returned"
    /\ req.method = "POST"
    /\ Len(res.sent) = 1
    /\ res.sent[1].status = 200
    /\ res.sent[1].body.country = <<"U", "S">>

\* C8: a failure raised anywhere while the request is handled, client-IP
\* extraction included, ends in a 500 response with country "XX" and never
\* escapes the handler
C8_EveryFailureBecomes500 ==
    (hpc # "request" /\ failure # "none") =>
        /\ hpc = "returned"
        /\ Len(res.sent) = 1
        /\ res.sent[1].status = 500
        /\ res.sent[1].body.country = XX

\* what the code does: a failure inside the try block becomes a 500 with "XX"
C8_FailureInTryBecomes500 ==
    (hpc # "request" /\ failure = "query") =>
        /\ hpc = "returned"
        /\ Len(res.sent) = 1
        /\ res.sent[1].status = 500
        /\ res.sent[1].body.country = XX

C8_FailureInTryReached == hpc = "returned" /\ failure = "query"

----------------------------------------------------------------------------
(* URL validation.  new URL(url) is the platform's parser; parseURL follows *)
(* its steps for the inputs of the model: scheme, the slashes a special     *)
(* scheme skips, authority, credentials, host, port.  The hosts of the      *)
(* model are names and dotted decimal addresses the parser keeps as they    *)
(* are, apart from lowercasing.                                             *)

SchemeChars == Range(LowerLetters) \cup Range(UpperLetters) \cup Range(Digits) \cup {"+", "-", "."}
SpecialSchemes == { <<"h", "t", "t", "p">>, <<"h", "t", "t", "p", "s">>, <<"f", "t", "p">>,
                    <<"w", "s">>, <<"w", "s", "s">> }
ForbiddenHostChars == {" ", "<", ">", "^", "|"}

FirstIndex(s, stops) ==
    IF \E i \in 1..Len(s) : s[i] \in stops
    THEN CHOOSE i \in 1..Len(s) : s[i] \in stops /\ \A j \in 1..(i - 1) : s[j] \notin stops
    ELSE 0

LastIndex(s, stops) ==
    IF \E i \in 1..Len(s) : s[i] \in stops
    THEN CHOOSE i \in 1..Len(s) : s[i] \in stops /\ \A j \in (i + 1)..Len(s) : s[j] \notin stops
    ELSE 0

takeUntil(s, stops) ==
    IF FirstIndex(s, stops) = 0 THEN s ELSE SubSeq(s, 1, FirstIndex(s, stops) - 1)

dropThrough(s, i) == SubSeq(s, i + 1, Len(s))

RECURSIVE skipSlashes(_)
skipSlashes(s) ==
    IF s # <<>> /\ Head(s) \in {"/", "\\"} THEN skipSlashes(Tail(s)) ELSE s

ParseFailure == [ok |-> FALSE, protocol |-> <<>>, hostname |-> <<>>]

\* the authority of a URL: credentials up to the last "@", then host[:port]
parseAuthority(scheme, authority, special) ==
    LET hostport == dropThrough(authority, LastIndex(authority, {"@"}))
        host == takeUntil(hostport, {":"})
        port == dropThrough(hostport, Len(host) + 1)
    IN IF host = <<>> /\ (special \/ hostport # <<>>) THEN ParseFailure
       ELSE IF \E i \in 1..Len(host) : host[i] \in ForbiddenHostChars THEN ParseFailure
       ELSE IF \E i \in 1..Len(port) : port[i] \notin Range(Digits) THEN ParseFailure
       ELSE [ok |-> TRUE,
             protocol |-> scheme \o <<":">>,
             hostname |-> IF special THEN toLowerCase(host) ELSE host]

\* new URL(s) without a base: a failure stands for the TypeError it throws
parseURL(s) ==
    LET input == trim(s)
        colon == FirstIndex(input, {":"})
        scheme == toLowerCase(SubSeq(input, 1, colon - 1))
        rest == dropThrough(input, colon)
    IN IF \/ colon < 2
          \/ input[1] \notin (Range(LowerLetters) \cup Range(UpperLetters))
          \/ \E j \in 2..(colon - 1) : input[j] \notin SchemeChars
       THEN ParseFailure
       ELSE IF scheme \in SpecialSchemes
       THEN parseAuthority(scheme, takeUntil(skipSlashes(rest), {"/", "?", "#", "\\"}), TRUE)
       ELSE IF startsWith(rest, <<"/", "/">>)
       THEN parseAuthority(scheme, takeUntil(dropThrough(rest, 2), {"/", "?", "#"}), FALSE)
       ELSE [ok |-> TRUE, protocol |-> scheme \o <<":">>, hostname |-> <<>>]

\* faulty variant: any scheme passes
isAllowedProtocol_Any(protocol) == TRUE

\* ['http:', 'https:'].includes(urlObj.protocol)
isAllowedProtocol(protocol) ==
    protocol \in { <<"h", "t", "t", "p", ":">>, <<"h", "t", "t", "p", "s", ":">> }

\* faulty variant: the "10." prefix is missing from the blocklist
isBlockedHost_NoTenPrefix(hostname) ==
    \/ hostname = <<"l", "o", "c", "a", "l", "h", "o", "s", "t">>
    \/ hostname = <<"1", "2", "7", ".", "0", ".", "0", ".", "1">>
    \/ startsWith(hostname, <<"1", "9", "2", ".", "1", "6", "8", ".">>)
    \/ startsWith(hostname, <<"1", "7", "2", ".">>)

\* the production blocklist, on the lowercased hostname
isBlockedHost(hostname) ==
    \/ hostname = <<"l", "o", "c", "a", "l", "h", "o", "s", "t">>
    \/ hostname = <<"1", "2", "7", ".", "0", ".", "0", ".", "1">>
    \/ startsWith(hostname, <<"1", "9", "2", ".", "1", "6", "8", ".">>)
    \/ startsWith(hostname, <<"1", "0", ".">>)
    \/ startsWith(hostname, <<"1", "7", "2", ".">>)

\* the body of the try block: threw when new URL(url) throws
tryValidate(s, env) ==
    LET urlObj == parseURL(s)
    IN IF ~urlObj.ok THEN [threw |-> TRUE, value |-> FALSE]
       ELSE IF ~isAllowedProtocol(urlObj.protocol) THEN [threw |-> FALSE, value |-> FALSE]
       ELSE IF urlObj.hostname = <<>> THEN [threw |-> FALSE, value |-> FALSE]
       ELSE IF env = "production" /\ isBlockedHost(toLowerCase(urlObj.hostname))
            THEN [threw |-> FALSE, value |-> FALSE]
       ELSE [threw |-> FALSE, value |-> TRUE]

\* isValidUrl(url) under NODE_ENV = env; the catch turns a throw into false
isValidUrl(u, env) ==
    IF ~Truthy(u) \/ u.t # "string" \/ u.v = <<"#">>
    THEN [threw |-> FALSE, value |-> FALSE]
    ELSE IF tryValidate(u.v, env).threw THEN [threw |-> FALSE, value |-> FALSE]
    ELSE tryValidate(u.v, env)

UrlSchemes == { <<"h", "t", "t", "p">>, <<"h", "t", "t", "p", "s">>, <<"H", "T", "T", "P">>,
                <<"j", "a", "v", "a", "s", "c", "r", "i", "p", "t">>, <<"d", "a", "t", "a">>,
                <<"f", "t", "p">>, <<>> }
UrlSeparators == { <<":", "/", "/">>, <<":">>, <<>> }
UrlHosts == {
    <<"e", "x", "a", "m", "p", "l", "e", ".", "c", "o", "m">>,
    <<"l", "o", "c", "a", "l", "h", "o", "s", "t">>,
    <<"L", "O", "C", "A", "L", "H", "O", "S", "T">>,
    <<"1", "2", "7", ".", "0", ".", "0", ".", "1">>,
    <<"1", "2", "7", ".", "0", ".", "0", ".", "2">>,
    <<"1", "0", ".", "0", ".", "0", ".", "5">>,
    <<"1", "0", "x", ".", "e", "x", "a", "m", "p", "l", "e", ".", "c", "o", "m">>,
    <<"1", "1", "0", ".", "1", ".", "1", ".", "1">>,
    <<"1", "7", "2", ".", "1", "6", ".", "0", ".", "1">>,
    <<"1", "9", "2", ".", "1", "6", "8", ".", "1", ".", "1">>,
    <<"1", "9", "2", ".", "1", "6", "9", ".", "1", ".", "1">>,
    <<"a", "l", "e", "r", "t", "(", "1", ")">>,
    <<"a", " ", "b">>,
    <<>> }
UrlTails == { <<>>, <<"/", "p", "a", "t", "h">>, <<":", "8", "0", "8", "0">> }

UrlInputs ==
    {Str(sc \o sep \o host \o tail) :
        sc \in UrlSchemes, sep \in UrlSeparators, host \in UrlHosts, tail \in UrlTails}
    \cup {Str(<<"#">>), Str(<<"n", "o", "t", " ", "a", " ", "u", "r", "l">>),
          Undefined, Num(0), Num(42), Arr(<<>>)}

NodeEnvs == {"production", "development", "test", "undefined"}

InitUrl ==
    /\ url \in UrlInputs
    /\ nodeEnv \in NodeEnvs
    /\ urlResult = [threw |-> FALSE, value |-> FALSE]
    /\ urlCalled = FALSE
    /\ IdleDetect /\ IdleHandler /\ IdleConfig

\* one call of isValidUrl(url)
IsValidUrl ==
    /\ ~urlCalled
    /\ urlResult' = isValidUrl(url, nodeEnv)
    /\ urlCalled' = TRUE
    /\ UNCHANGED <<url, nodeEnv, detectVars, handlerVars, configVars>>

NextUrl == IsValidUrl

SpecUrl == InitUrl /\ [][NextUrl]_vars

----------------------------------------------------------------------------
(* Claims about isValidUrl.                                                *)

\* the text starts with the scheme, in any letter case, and a colon
HasScheme(s, scheme) == startsWith(toLowerCase(trim(s)), scheme \o <<":">>)

\* C5: true only for a non-empty string other than "#" that parses as an absolute
\* URL with scheme http or https and a non-empty host; false for everything else
\* (javascript: and data: included) in every mode; never an error
C5_TrueOnlyForHttpUrls ==
    urlCalled =>
        /\ ~urlResult.threw
        /\ urlResult.value =>
              /\ url.t = "string"
              /\ url.v # <<>>
              /\ url.v # <<"#">>
              /\ parseURL(url.v).ok
              /\ HasScheme(url.v, <<"h", "t", "t", "p">>) \/ HasScheme(url.v, <<"h", "t", "t", "p", "s">>)
              /\ parseURL(url.v).hostname # <<>>
        /\ (url.t = "string" /\ (\/ HasScheme(url.v, <<"j", "a", "v", "a", "s", "c", "r", "i", "p", "t">>)
                                 \/ HasScheme(url.v, <<"d", "a", "t", "a">>)))
              => ~urlResult.value

\* a javascript: URL with an authority, which parses with a host, is rejected
C5_Witness ==
    /\ urlCalled
    /\ url.t = "string"
    /\ HasScheme(url.v, <<"j", "a", "v", "a", "s", "c", "r", "i", "p", "t">>)
    /\ parseURL(url.v).ok
    /\ parseURL(url.v).hostname # <<>>
    /\ ~urlResult.value

\* the URL passes the checks every mode applies
PassesSchemeAndHost(u) ==
    /\ u.t = "string"
    /\ u.v # <<>>
    /\ u.v # <<"#">>
    /\ parseURL(u.v).ok
    /\ HasScheme(u.v, <<"h", "t", "t", "p">>) \/ HasScheme(u.v, <<"h", "t", "t", "p", "s">>)
    /\ parseURL(u.v).hostname # <<>>

\* the lowercased host is localhost or 127.0.0.1, or starts with one of the prefixes
PrivateOrLoopback(host) ==
    LET lower == toLowerCase(host)
    IN \/ lower = <<"l", "o", "c", "a", "l", "h", "o", "s", "t">>
       \/ lower = <<"1", "2", "7", ".", "0", ".", "0", ".", "1">>
       \/ \E p \in { <<"1", "9", "2", ".", "1", "6", "8", ".">>, <<"1", "0", ".">>,
                     <<"1", "7", "2", ".">> } :
             Len(lower) >= Len(p) /\ \A i \in 1..Len(p) : lower[i] = p[i]

\* C6: production rejects a URL whose host is private or loopback (string test);
\* every other mode accepts a URL that passes the scheme and host checks; for the
\* other hosts all modes answer alike
C6_ModeOnlyBlocksPrivateHosts ==
    (urlCalled /\ url.t = "string" /\ parseURL(url.v).ok) =>
        /\ (nodeEnv = "production" /\ PrivateOrLoopback(parseURL(url.v).hostname))
              => ~urlResult.value
        /\ (nodeEnv # "production" /\ PassesSchemeAndHost(url))
              => urlResult.value
        /\ ~PrivateOrLoopback(parseURL(url.v).hostname)
              => \A e \in NodeEnvs : isValidUrl(url, e).value = urlResult.value

\* production rejects http://10.0.0.5, which development accepts
C6_Witness ==
    /\ urlCalled
    /\ nodeEnv = "production"
    /\ url = Str(<<"h", "t", "t", "p", ":", "/", "/", "1", "0", ".", "0", ".", "0", ".", "5">>)
    /\ ~urlResult.value
    /\ isValidUrl(url, "development").value

----------------------------------------------------------------------------
(* Configuration loading.  fetch and response.json() are the platform's;   *)
(* net holds what they will answer: a rejected fetch, or a response with a *)
(* status and a body that is a JSON document or is malformed.              *)

getDefaultConfig ==
    [redirects |-> [DEFAULT |-> "https://t.co/y5IrJWOLzN"],
     counter |-> [key |-> "norieldev", titles |-> [DEFAULT |-> "NORIEL DEV NULL"]],
     flags |-> [DEFAULT |-> "https://flagcdn.com/w320/un.png"],
     settings |-> [instantRedirectMode |-> FALSE,
                   minWaitTime |-> 1500,
                   maxWaitTime |-> 3000,
                   enableLogging |-> TRUE,
                   enableVPNDetection |-> TRUE,
                   vpnDetectionThreshold |-> 60],
     adScripts |-> <<>>,
     adultDomains |-> <<>>,
     allowedUrlParams |-> <<"id", "page", "view">>]

\* the documents config.json may hold
ConfigDocs ==
    {[getDefaultConfig EXCEPT
        !.redirects = [DEFAULT |-> target],
        !.settings = [@ EXCEPT !.instantRedirectMode = instant,
                               !.minWaitTime = minWait,
                               !.maxWaitTime = maxWait,
                               !.vpnDetectionThreshold = threshold]] :
        target \in {"https://t.co/y5IrJWOLzN", "https://example.com/landing"},
        instant \in BOOLEAN,
        minWait \in {1500, 500},
        maxWait \in {3000, 9000},
        threshold \in {60, 80}}

Statuses == {200, 404, 500}

Answers ==
    {[rejects |-> TRUE, status |-> 0, wellFormed |-> FALSE, doc |-> getDefaultConfig]}
    \cup {[rejects |-> FALSE, status |-> st, wellFormed |-> FALSE, doc |-> getDefaultConfig] :
            st \in Statuses}
    \cup [rejects : {FALSE}, status : Statuses, wellFormed : {TRUE}, doc : ConfigDocs]

\* Response.ok: the status is in the range 200-299
Response(answer) ==
    [ok |-> answer.status >= 200 /\ answer.status <= 299,
     status |-> answer.status, wellFormed |-> answer.wellFormed, doc |-> answer.doc]

NoResponse == [ok |-> FALSE, status |-> 0, wellFormed |-> FALSE, doc |-> getDefaultConfig]

Pending == [state |-> "pending", value |-> getDefaultConfig]
Fulfilled(value) == [state |-> "fulfilled", value |-> value]

\* faulty variant: the status is never looked at
responseNotOk_Ignored(r) == FALSE

\* !response.ok
responseNotOk(r) == ~r.ok

InitConfig ==
    /\ net \in Answers
    /\ cpc = "start"
    /\ response = NoResponse
    /\ promise = Pending
    /\ nodeEnv = "production"
    /\ IdleDetect /\ IdleHandler /\ IdleUrl

\* loadConfig(configPath) is called: it runs up to `await fetch(configPath)` and
\* hands its caller a pending promise
LoadConfig ==
    /\ cpc = "start"
    /\ cpc' = "awaitFetch"
    /\ UNCHANGED <<net, response, promise, nodeEnv, detectVars, handlerVars, urlVars>>

\* the fetch settles: a rejection, or a response that is not ok (the throw of line
\* 100), lands in the catch, which returns getDefaultConfig(); an ok response goes
\* on to `await response.json()`
FetchSettles ==
    /\ cpc = "awaitFetch"
    /\ IF net.rejects
       THEN /\ promise' = Fulfilled(getDefaultConfig)
            /\ cpc' = "done"
            /\ UNCHANGED response
       ELSE /\ response' = Response(net)
            /\ IF responseNotOk(Response(net))
               THEN promise' = Fulfilled(getDefaultConfig) /\ cpc' = "done"
               ELSE promise' = promise /\ cpc' = "awaitJson"
    /\ UNCHANGED <<net, nodeEnv, detectVars, handlerVars, urlVars>>

\* response.json() settles: a malformed body rejects into the catch, a document is
\* returned as parsed
JsonSettles ==
    /\ cpc = "awaitJson"
    /\ promise' = IF response.wellFormed
                  THEN Fulfilled(response.doc)
                  ELSE Fulfilled(getDefaultConfig)
    /\ cpc' = "done"
    /\ UNCHANGED <<net, response, nodeEnv, detectVars, handlerVars, urlVars>>

NextConfig == LoadConfig \/ FetchSettles \/ JsonSettles

SpecConfig == InitConfig /\ [][NextConfig]_vars

----------------------------------------------------------------------------
(* Claims about loadConfig.                                                *)

\* the default configuration as the claim describes it
IsHardcodedDefault(c) ==
    /\ c = getDefaultConfig
    /\ DOMAIN c.redirects = {"DEFAULT"}
    /\ c.settings.vpnDetectionThreshold = 60
    /\ c.settings.minWaitTime = 1500
    /\ c.settings.maxWaitTime = 3000

\* C9: the promise of loadConfig is never rejected; after a rejected fetch, a
\* status that is not OK or a body that is not JSON it resolves to the hardcoded
\* default configuration, and after a successful fetch to the parsed document
C9_LoadConfigNeverFails ==
    /\ promise.state # "rejected"
    /\ cpc = "done" =>
          /\ promise.state = "fulfilled"
          /\ IF net.rejects \/ net.status < 200 \/ net.status > 299 \/ ~net.wellFormed
             THEN IsHardcodedDefault(promise.value)
             ELSE promise.value = net.doc

\* a 404 whose body is a well-formed document other than the default
C9_Witness ==
    /\ cpc = "done"
    /\ net.status = 404
    /\ net.wellFormed
    /\ net.doc # getDefaultConfig
    /\ promise = Fulfilled(getDefaultConfig)

====
